---- MODULE Spec2Model ----
(***************************************************************************)
(* A model of the Onyx IDL front end: the parser (src/src/parser.rs) over  *)
(* the token stream of the lexer, the size/order resolution that           *)
(* parse_module runs after parsing, the AST helpers (src/src/ast.rs) and   *)
(* the packed-size resolver (src/src/resolver.rs).                         *)
(***************************************************************************)
EXTENDS Integers, Sequences, FiniteSets, TLC

\* ------------------------------------------------------------------ bounds
\* The largest number of top-level items (directives, definitions) in a source.
MaxItems == 3

\* ------------------------------------------------------------------ helpers
Range(s) == { s[i] : i \in 1..Len(s) }

None == << >>

EmptyMap == [n \in {} |-> 0]

Some(x) == << x >>

RECURSIVE Flatten(_)
Flatten(ss) == IF ss = << >> THEN << >> ELSE Head(ss) \o Flatten(Tail(ss))

\* All sequences without repetition that enumerate the set S.
Orders(S) == { f \in [1..Cardinality(S) -> S] : \A i, j \in DOMAIN f : f[i] = f[j] => i = j }

\* All sequences over S of length at most n.
SeqUpTo(S, n) == UNION { [1..k -> S] : k \in 0..n }

\* ------------------------------------------------------------------ ast.rs
PrimitiveType == { "bool", "u8", "u16", "u32", "u64", "i8", "i16", "i32", "i64", "f32", "f64" }

\* The table with the width of f32 for f64.
get_bit_width_f64_as_f32(p) ==
    CASE p \in { "bool", "u8", "i8" } -> 8
      [] p \in { "u16", "i16" } -> 16
      [] p \in { "u32", "i32", "f32", "f64" } -> 32
      [] p \in { "u64", "i64" } -> 64

get_bit_width(p) ==
    CASE p \in { "bool", "u8", "i8" } -> 8
      [] p \in { "u16", "i16" } -> 16
      [] p \in { "u32", "i32", "f32" } -> 32
      [] p \in { "u64", "i64", "f64" } -> 64

get_byte_size(p) ==
    CASE p \in { "bool", "u8", "i8" } -> 1
      [] p \in { "u16", "i16" } -> 2
      [] p \in { "u32", "i32", "f32" } -> 4
      [] p \in { "u64", "i64", "f64" } -> 8

TypePrimitive(p) == [tag |-> "Primitive", name |-> p]

TypeCustom(n) == [tag |-> "Custom", name |-> n]

Field(n, t, b) == [name |-> n, type_info |-> t, bit_field_size |-> b]

EnumVariant(n, v) == [name |-> n, value |-> v]

\* The three variants of Definition, as records of one shape.
MessageDef(n, fs, sz) ==
    [kind |-> "Message", name |-> n, fields |-> fs, size |-> sz,
     underlying_type |-> "", variants |-> << >>]

StructDef(n, fs, sz) ==
    [kind |-> "Struct", name |-> n, fields |-> fs, size |-> sz,
     underlying_type |-> "", variants |-> << >>]

EnumDef(n, p, vs) ==
    [kind |-> "Enum", name |-> n, fields |-> << >>, size |-> None,
     underlying_type |-> p, variants |-> vs]

\* Definition::size
DefinitionSize(def) ==
    IF def.kind = "Enum" THEN Some(get_bit_width(def.underlying_type)) ELSE def.size

\* OnyxModule::default
OnyxModuleDefault == [definitions |-> EmptyMap, endianness |-> "Little", order |-> << >>]

\* ------------------------------------------------------------------ tokens
Token(k, s, v) == [kind |-> k, s |-> s, v |-> v]

Keyword(k) == Token(k, "", 0)

Identifier(s) == Token("Identifier", s, 0)

LiteralInt(v) == Token("LiteralInt", "", v)

Primitive(p) == Token("Primitive", p, 0)

Eof == Keyword("Eof")

\* ------------------------------------------------------------------ parser.rs
\* The token the parser holds after p - 1 calls of advance: the lexer's p-th
\* token, or Eof once the lexer is exhausted.
TokenAt(toks, p) == IF p <= Len(toks) THEN toks[p] ELSE Eof

Ok(p, v) == [ok |-> TRUE, pos |-> p, val |-> v]

ParseError(e) == [ok |-> FALSE, err |-> e]

\* The ? operator: the rest K of a function runs on an Ok, an Err is returned.
\* The result r is evaluated once, v being its value.
Try(r, K(_)) == CHOOSE out \in { IF v.ok THEN K(v) ELSE v : v \in { r } } : TRUE

consume(toks, p, expected) ==
    IF TokenAt(toks, p).kind = expected
    THEN Ok(p + 1, << >>)
    ELSE ParseError([msg |-> "expected", expected |-> expected, found |-> TokenAt(toks, p), at |-> p])

consume_identifier(toks, p) ==
    IF TokenAt(toks, p).kind = "Identifier"
    THEN Ok(p + 1, TokenAt(toks, p).s)
    ELSE ParseError([msg |-> "Expected an identifier", found |-> TokenAt(toks, p), at |-> p])

\* The match with the two arms exchanged.
endianness_value_exchanged(t, p) ==
    IF t.kind = "Identifier" /\ t.s = "big" THEN Ok(p + 1, "Little")
    ELSE IF t.kind = "Identifier" /\ t.s = "little" THEN Ok(p + 1, "Big")
    ELSE ParseError([msg |-> "expected 'big' or 'little' for endianness", found |-> t, at |-> p])

\* The match of parse_endianness_directive on the token t at position p.
endianness_value(t, p) ==
    IF t.kind = "Identifier" /\ t.s = "big" THEN Ok(p + 1, "Big")
    ELSE IF t.kind = "Identifier" /\ t.s = "little" THEN Ok(p + 1, "Little")
    ELSE ParseError([msg |-> "expected 'big' or 'little' for endianness", found |-> t, at |-> p])

parse_endianness_directive(toks, p) ==
    Try(consume(toks, p, "Endianness"), LAMBDA c1 :
    Try(consume(toks, c1.pos, "Assign"), LAMBDA c2 :
    endianness_value(TokenAt(toks, c2.pos), c2.pos)))

parse_type(toks, p) ==
    IF TokenAt(toks, p).kind = "Primitive" THEN Ok(p + 1, TypePrimitive(TokenAt(toks, p).s))
    ELSE IF TokenAt(toks, p).kind = "Identifier" THEN Ok(p + 1, TypeCustom(TokenAt(toks, p).s))
    ELSE ParseError([msg |-> "expected a type name", found |-> TokenAt(toks, p), at |-> p])

parse_primitive_type(toks, p) ==
    IF TokenAt(toks, p).kind = "Primitive" THEN Ok(p + 1, TokenAt(toks, p).s)
    ELSE ParseError([msg |-> "expected a numeric primitive type", found |-> TokenAt(toks, p), at |-> p])

\* The check with a strict comparison.
FitsWidth_strict(size, p) == size < get_bit_width(p)

\* The check of a bit-field size against the width of the primitive p.
FitsWidth(size, p) == size <= get_bit_width(p)

\* The bit-field part without the match on the type: any type takes a size.
bit_field_size_of_any_type(toks, p, type_info) ==
    IF TokenAt(toks, p).kind = "Colon"
    THEN IF TokenAt(toks, p + 1).kind = "LiteralInt"
         THEN Ok(p + 2, Some(TokenAt(toks, p + 1).v))
         ELSE Ok(p + 1, None)
    ELSE Ok(p, None)

\* The optional bit-field part of parse_field: the position after it and the
\* bit_field_size it yields.
bit_field_size(toks, p, type_info) ==
    IF TokenAt(toks, p).kind = "Colon"
    THEN IF type_info.tag = "Primitive"
         THEN IF TokenAt(toks, p + 1).kind = "LiteralInt"
              THEN IF FitsWidth(TokenAt(toks, p + 1).v, type_info.name)
                   THEN Ok(p + 2, Some(TokenAt(toks, p + 1).v))
                   ELSE ParseError([msg |-> "exceeds type", size |-> TokenAt(toks, p + 1).v,
                                    type |-> type_info.name,
                                    width |-> get_bit_width(type_info.name), at |-> p + 1])
              ELSE Ok(p + 1, None)
         ELSE ParseError([msg |-> "expected integer literal for bit-field size",
                          found |-> TokenAt(toks, p + 1), at |-> p + 1])
    ELSE Ok(p, None)

\* The field whose comma is consumed only when it is there.
parse_field_optional_comma(toks, p) ==
    Try(consume_identifier(toks, p), LAMBDA n :
    Try(parse_type(toks, n.pos), LAMBDA ty :
    Try(bit_field_size(toks, ty.pos, ty.val), LAMBDA bf :
    Ok(IF TokenAt(toks, bf.pos).kind = "Comma" THEN bf.pos + 1 ELSE bf.pos,
       Field(n.val, ty.val, bf.val)))))

parse_field(toks, p) ==
    Try(consume_identifier(toks, p), LAMBDA n :
    Try(parse_type(toks, n.pos), LAMBDA ty :
    Try(bit_field_size(toks, ty.pos, ty.val), LAMBDA bf :
    Try(consume(toks, bf.pos, "Comma"), LAMBDA c :
    Ok(c.pos, Field(n.val, ty.val, bf.val))))))

\* The loop of parse_struct_body.
RECURSIVE parse_fields(_, _, _)
parse_fields(toks, p, fields) ==
    IF TokenAt(toks, p).kind \notin { "CloseBrace", "Eof" }
    THEN Try(parse_field(toks, p), LAMBDA f : parse_fields(toks, f.pos, Append(fields, f.val)))
    ELSE Ok(p, fields)

parse_struct_body(toks, p) ==
    Try(consume(toks, p, "OpenBrace"), LAMBDA o :
    Try(parse_fields(toks, o.pos, << >>), LAMBDA fs :
    Try(consume(toks, fs.pos, "CloseBrace"), LAMBDA c :
    Ok(c.pos, fs.val))))

parse_message(toks, p) ==
    Try(consume(toks, p, "Message"), LAMBDA k :
    Try(consume_identifier(toks, k.pos), LAMBDA n :
    Try(parse_struct_body(toks, n.pos), LAMBDA b :
    Ok(b.pos, MessageDef(n.val, b.val, None)))))

parse_struct(toks, p) ==
    Try(consume(toks, p, "Struct"), LAMBDA k :
    Try(consume_identifier(toks, k.pos), LAMBDA n :
    Try(parse_struct_body(toks, n.pos), LAMBDA b :
    Ok(b.pos, StructDef(n.val, b.val, None)))))

\* The variant whose value, when none is written, is 0.
parse_variant_defaulted(toks, p) ==
    Try(consume_identifier(toks, p), LAMBDA n :
    IF TokenAt(toks, n.pos).kind = "Assign"
    THEN IF TokenAt(toks, n.pos + 1).kind # "LiteralInt"
         THEN ParseError([msg |-> "expected integer literal for enum assignment",
                          found |-> TokenAt(toks, n.pos + 1), at |-> n.pos + 1])
         ELSE Try(consume(toks, n.pos + 2, "Comma"), LAMBDA c :
              Ok(c.pos, EnumVariant(n.val, Some(TokenAt(toks, n.pos + 1).v))))
    ELSE Try(consume(toks, n.pos, "Comma"), LAMBDA c :
         Ok(c.pos, EnumVariant(n.val, Some(0)))))

\* One variant of parse_enum's loop: its name, the optional '= N', the comma.
parse_variant(toks, p) ==
    Try(consume_identifier(toks, p), LAMBDA n :
    IF TokenAt(toks, n.pos).kind = "Assign"
    THEN IF TokenAt(toks, n.pos + 1).kind # "LiteralInt"
         THEN ParseError([msg |-> "expected integer literal for enum assignment",
                          found |-> TokenAt(toks, n.pos + 1), at |-> n.pos + 1])
         ELSE Try(consume(toks, n.pos + 2, "Comma"), LAMBDA c :
              Ok(c.pos, EnumVariant(n.val, Some(TokenAt(toks, n.pos + 1).v))))
    ELSE Try(consume(toks, n.pos, "Comma"), LAMBDA c :
         Ok(c.pos, EnumVariant(n.val, None))))

\* The loop of parse_enum.
RECURSIVE parse_variants(_, _, _)
parse_variants(toks, p, variants) ==
    IF TokenAt(toks, p).kind \notin { "CloseBrace", "Eof" }
    THEN Try(parse_variant(toks, p), LAMBDA v :
             parse_variants(toks, v.pos, Append(variants, v.val)))
    ELSE Ok(p, variants)

parse_enum(toks, p) ==
    Try(consume(toks, p, "Enum"), LAMBDA k :
    Try(consume_identifier(toks, k.pos), LAMBDA n :
    Try(consume(toks, n.pos, "Colon"), LAMBDA c :
    Try(parse_primitive_type(toks, c.pos), LAMBDA u :
    Try(consume(toks, u.pos, "OpenBrace"), LAMBDA o :
    Try(parse_variants(toks, o.pos, << >>), LAMBDA vs :
    Try(consume(toks, vs.pos, "CloseBrace"), LAMBDA e :
    Ok(e.pos, EnumDef(n.val, u.val, vs.val)))))))))

parse_definition(toks, p) ==
    CASE TokenAt(toks, p).kind = "Message" -> parse_message(toks, p)
      [] TokenAt(toks, p).kind = "Struct" -> parse_struct(toks, p)
      [] TokenAt(toks, p).kind = "Enum" -> parse_enum(toks, p)
      [] OTHER -> ParseError([msg |-> "expected 'message', 'struct', or 'enum'",
                              found |-> TokenAt(toks, p), at |-> p])

\* ------------------------------------------------------------------ parser.rs, resolution
\* Vec::contains
Contains(v, x) == x \in Range(v)

\* The push without the test of contains.
PushUnique_unconditional(type_order, name) == Append(type_order, name)

\* if !type_order.contains(name) { type_order.push(name) }
PushUnique(type_order, name) ==
    IF Contains(type_order, name) THEN type_order ELSE Append(type_order, name)

\* The assignment in place of the addition.
AddFieldSize_assign(total_size, field_size) == field_size

\* total_size += field_size
AddFieldSize(total_size, field_size) == total_size + field_size

Resolved(sz, type_order, type_stack) ==
    [ok |-> TRUE, size |-> sz, type_order |-> type_order, type_stack |-> type_stack]

\* The end of resolve_type_calculate without the pop: the name stays on the stack.
pop_deepest_dep_without_pop(r) ==
    IF r.type_stack = << >>
    THEN ParseError([msg |-> "expected a custom type to be on the stack.", at |-> 0])
    ELSE Resolved(r.size, PushUnique(r.type_order, r.type_stack[Len(r.type_stack)]),
                  r.type_stack)

\* The end of resolve_type_calculate, r being the result for the fields: the
\* name is popped from the stack and pushed to the order.
pop_deepest_dep(r) ==
    IF r.type_stack = << >>
    THEN ParseError([msg |-> "expected a custom type to be on the stack.", at |-> 0])
    ELSE Resolved(r.size, PushUnique(r.type_order, r.type_stack[Len(r.type_stack)]),
                  SubSeq(r.type_stack, 1, Len(r.type_stack) - 1))

\* The error of the other failure of resolution in its place.
undefined_type_as_cycle(custom_name) ==
    ParseError([msg |-> "circular dependency detected", cycle |-> << custom_name >>, at |-> 0])

\* The error of resolve_fields_calculate for a name that is no key of the map.
undefined_type(custom_name) ==
    ParseError([msg |-> "not defined", name |-> custom_name, at |-> 0])

\* The chain with the name found again before the names of the stack.
cycle_chain_name_first(type_stack, name) == << name >> \o type_stack

\* type_stack.iter().cloned().chain(once(def.name())): the names of the stack,
\* then the name found again.
cycle_chain(type_stack, name) == Append(type_stack, name)

\* Vec<String>::join
RECURSIVE join(_, _)
join(names, sep) ==
    IF names = << >> THEN ""
    ELSE IF Len(names) = 1 THEN names[1]
    ELSE names[1] \o sep \o join(Tail(names), sep)

\* The message of the ParseError of a cycle
circular_message(cycle) == "circular dependency detected: '" \o join(cycle, " -> ") \o "'."

RECURSIVE resolve_type_calculate(_, _, _, _)
RECURSIVE resolve_fields_calculate(_, _, _, _, _, _)

\* def is definitions[name]: the map is keyed by def.name().
resolve_type_calculate(definitions, type_order, type_stack, name) ==
    IF DefinitionSize(definitions[name]) # None
    THEN Resolved(DefinitionSize(definitions[name])[1], PushUnique(type_order, name), type_stack)
    ELSE IF Contains(type_stack, name)
    THEN ParseError([msg |-> "circular dependency detected",
                     cycle |-> cycle_chain(type_stack, name), at |-> 0])
    ELSE Try(resolve_fields_calculate(definitions, type_order, Append(type_stack, name),
                                      definitions[name].fields, 1, 0),
             LAMBDA r : pop_deepest_dep(r))

\* The loop over fields, from field i on, with total_size so far.
resolve_fields_calculate(definitions, type_order, type_stack, fields, i, total_size) ==
    IF i > Len(fields) THEN Resolved(total_size, type_order, type_stack)
    ELSE IF fields[i].bit_field_size # None
    THEN resolve_fields_calculate(definitions, type_order, type_stack, fields, i + 1,
                                  AddFieldSize(total_size, fields[i].bit_field_size[1]))
    ELSE IF fields[i].type_info.tag = "Primitive"
    THEN resolve_fields_calculate(definitions, type_order, type_stack, fields, i + 1,
                                  AddFieldSize(total_size,
                                               get_bit_width(fields[i].type_info.name)))
    ELSE IF fields[i].type_info.name \in DOMAIN definitions
    THEN Try(resolve_type_calculate(definitions, type_order, type_stack,
                                    fields[i].type_info.name),
             LAMBDA r : resolve_fields_calculate(definitions, r.type_order, r.type_stack,
                                                 fields, i + 1,
                                                 AddFieldSize(total_size, r.size)))
    ELSE undefined_type(fields[i].type_info.name)

\* Pass 1 of resolve_module, from the i-th definition of the map's iteration
\* order iter on.
RECURSIVE calculate_sizes(_, _, _, _, _)
calculate_sizes(definitions, iter, i, type_order, calculated_sizes) ==
    IF i > Len(iter)
    THEN [ok |-> TRUE, type_order |-> type_order, calculated_sizes |-> calculated_sizes]
    ELSE Try(resolve_type_calculate(definitions, type_order, << >>, iter[i]),
             LAMBDA r : calculate_sizes(definitions, iter, i + 1, r.type_order,
                                        calculated_sizes @@ (iter[i] :> r.size)))

\* Pass 2 adding the calculated size to the size a definition already has.
assign_sizes_added(definitions, calculated_sizes) ==
    [id \in DOMAIN definitions |->
        IF definitions[id].kind \in { "Message", "Struct" }
        THEN [definitions[id] EXCEPT !.size =
                 Some((IF definitions[id].size = None THEN 0 ELSE definitions[id].size[1])
                      + calculated_sizes[id])]
        ELSE definitions[id]]

\* Pass 2 of resolve_module.
assign_sizes(definitions, calculated_sizes) ==
    [id \in DOMAIN definitions |->
        IF definitions[id].kind \in { "Message", "Struct" }
        THEN [definitions[id] EXCEPT !.size = Some(calculated_sizes[id])]
        ELSE definitions[id]]

\* resolve_module without its second pass: the sizes are calculated and not
\* assigned.
resolve_module_without_pass_2(m, iter) ==
    Try(calculate_sizes(m.definitions, iter, 1, << >>, EmptyMap),
        LAMBDA p1 : [ok |-> TRUE,
                     val |-> [definitions |-> m.definitions,
                              endianness |-> m.endianness,
                              order |-> p1.type_order]])

\* resolve_module for a module m, the hash map being iterated in the order iter.
resolve_module(m, iter) ==
    Try(calculate_sizes(m.definitions, iter, 1, << >>, EmptyMap),
        LAMBDA p1 : [ok |-> TRUE,
                     val |-> [definitions |-> assign_sizes(m.definitions, p1.calculated_sizes),
                              endianness |-> m.endianness,
                              order |-> p1.type_order]])

\* Field::get_bit_width; None where one of its unwraps panics.
FieldGetBitWidth(field, m) ==
    IF field.bit_field_size # None THEN Some(field.bit_field_size[1])
    ELSE IF field.type_info.tag = "Primitive" THEN Some(get_bit_width(field.type_info.name))
    ELSE IF field.type_info.name \in DOMAIN m.definitions
    THEN DefinitionSize(m.definitions[field.type_info.name])
    ELSE None

\* ------------------------------------------------------------------ parser.rs, parse_module
\* Parser::new: the first token is fetched, the module is empty.
parser_new(toks) ==
    IF Len(toks) = 0
    THEN ParseError([msg |-> "Empty source file.", at |-> 0])
    ELSE Ok(1, OnyxModuleDefault)

\* The insertion without the test of contains_key: the later definition wins.
insert_definition_overwriting(m, d) ==
    Ok(d.pos, [m EXCEPT !.definitions = (d.val.name :> d.val) @@ @])

\* The insertion of the parsed definition d into the module m.
insert_definition(m, d) ==
    IF d.val.name \notin DOMAIN m.definitions
    THEN Ok(d.pos, [m EXCEPT !.definitions = (d.val.name :> d.val) @@ @])
    ELSE ParseError([msg |-> "already exists", name |-> d.val.name, at |-> d.pos])

\* The iteration that leaves the parser at the first token.
Iterated_at_first_token(p, m, set) ==
    [ok |-> TRUE, pos |-> 1, val |-> m, endianness_set |-> set]

Iterated(p, m, set) == [ok |-> TRUE, pos |-> p, val |-> m, endianness_set |-> set]

\* The iteration without the test of endianness_set: a later directive is
\* parsed like the first one.
loop_iteration_any_directive(toks, p, m, set) ==
    IF TokenAt(toks, p).kind = "Endianness"
    THEN Try(parse_endianness_directive(toks, p), LAMBDA e :
         Try(parse_definition(toks, e.pos), LAMBDA d :
         Try(insert_definition([m EXCEPT !.endianness = e.val], d), LAMBDA i :
         Iterated(i.pos, i.val, TRUE))))
    ELSE Try(parse_definition(toks, p), LAMBDA d :
         Try(insert_definition(m, d), LAMBDA i :
         Iterated(i.pos, i.val, set)))

\* One iteration of parse_module's loop at position p, with the module m and
\* the local endianness_set.
loop_iteration(toks, p, m, set) ==
    IF TokenAt(toks, p).kind = "Endianness" /\ ~set
    THEN Try(parse_endianness_directive(toks, p), LAMBDA e :
         Try(parse_definition(toks, e.pos), LAMBDA d :
         Try(insert_definition([m EXCEPT !.endianness = e.val], d), LAMBDA i :
         Iterated(i.pos, i.val, TRUE))))
    ELSE IF TokenAt(toks, p).kind = "Endianness" /\ set
    THEN ParseError([msg |-> "expected one endianness definition, found a second", at |-> p])
    ELSE Try(parse_definition(toks, p), LAMBDA d :
         Try(insert_definition(m, d), LAMBDA i :
         Iterated(i.pos, i.val, set)))

\* parse_module's loop from position p on: the parsed module, not yet resolved.
RECURSIVE module_loop(_, _, _, _)
module_loop(toks, p, m, set) ==
    IF TokenAt(toks, p).kind = "Eof" THEN Ok(p, m)
    ELSE Try(loop_iteration(toks, p, m, set), LAMBDA r :
             module_loop(toks, r.pos, r.val, r.endianness_set))

\* Parser::new, then parse_module up to its call of resolve_module.
parsed_module(toks) ==
    Try(parser_new(toks), LAMBDA n : module_loop(toks, n.pos, n.val, FALSE))

\* ------------------------------------------------------------------ resolver.rs
CompileError(e) == [ok |-> FALSE, err |-> e]

Packed(sz, packed_sizes, type_stack) ==
    [ok |-> TRUE, size |-> sz, packed_sizes |-> packed_sizes, type_stack |-> type_stack]

\* Ceiling division of a bit count by 8.
size_in_bytes(size_in_bits) == (size_in_bits + 7) \div 8

\* Step 5 of resolve_packed_size_recursive, r being the result in bits: pop,
\* store the size in bytes and return it.
store_packed_size(def_name, r) ==
    Packed(size_in_bytes(r.size),
           (def_name :> size_in_bytes(r.size)) @@ r.packed_sizes,
           SubSeq(r.type_stack, 1, Len(r.type_stack) - 1))

RECURSIVE resolve_packed_size_recursive(_, _, _, _)
RECURSIVE packed_fields(_, _, _, _, _, _)

\* The loop over fields that get_struct_packed_size_bytes and
\* get_message_packed_size_bytes share, from field i on.
packed_fields(fields, def_map, packed_sizes, type_stack, i, total_size) ==
    IF i > Len(fields) THEN Packed(total_size, packed_sizes, type_stack)
    ELSE IF fields[i].bit_field_size # None
    THEN packed_fields(fields, def_map, packed_sizes, type_stack, i + 1,
                       total_size + fields[i].bit_field_size[1])
    ELSE IF fields[i].type_info.tag = "Primitive"
    THEN packed_fields(fields, def_map, packed_sizes, type_stack, i + 1,
                       total_size + get_bit_width(fields[i].type_info.name))
    ELSE Try(resolve_packed_size_recursive(fields[i].type_info.name, def_map,
                                           packed_sizes, type_stack),
             LAMBDA r : packed_fields(fields, def_map, r.packed_sizes, r.type_stack,
                                      i + 1, total_size + r.size))

get_struct_packed_size_bytes(s, def_map, packed_sizes, type_stack) ==
    packed_fields(s.fields, def_map, packed_sizes, type_stack, 1, 0)

get_message_packed_size_bytes(m, def_map, packed_sizes, type_stack) ==
    packed_fields(m.fields, def_map, packed_sizes, type_stack, 1, 0)

resolve_packed_size_recursive(def_name, def_map, packed_sizes, type_stack) ==
    IF def_name \in DOMAIN packed_sizes
    THEN Packed(packed_sizes[def_name], packed_sizes, type_stack)
    ELSE IF Contains(type_stack, def_name)
    THEN CompileError([msg |-> "Circular dependency detected",
                       cycle |-> cycle_chain(type_stack, def_name)])
    ELSE IF def_name \notin DOMAIN def_map
    THEN CompileError([msg |-> "is used but not defined", name |-> def_name])
    ELSE Try(CASE def_map[def_name].kind = "Enum" ->
                    Packed(get_bit_width(def_map[def_name].underlying_type), packed_sizes,
                           Append(type_stack, def_name))
               [] def_map[def_name].kind = "Struct" ->
                    get_struct_packed_size_bytes(def_map[def_name], def_map, packed_sizes,
                                                 Append(type_stack, def_name))
               [] def_map[def_name].kind = "Message" ->
                    get_message_packed_size_bytes(def_map[def_name], def_map, packed_sizes,
                                                  Append(type_stack, def_name)),
             LAMBDA r : store_packed_size(def_name, r))

\* The loop of resolver::resolve_module, from the i-th definition of iter on.
RECURSIVE resolve_all_packed(_, _, _, _, _)
resolve_all_packed(def_map, iter, i, packed_sizes, resolving_types) ==
    IF i > Len(iter) THEN [ok |-> TRUE, val |-> packed_sizes]
    ELSE Try(resolve_packed_size_recursive(iter[i], def_map, packed_sizes, resolving_types),
             LAMBDA r : resolve_all_packed(def_map, iter, i + 1, r.packed_sizes, r.type_stack))

\* resolver::resolve_module for a module m iterated in the order iter.
resolver_resolve_module(m, iter) ==
    resolve_all_packed(m.definitions, iter, 1, EmptyMap, << >>)

\* ------------------------------------------------------------------ sources
\* The text of one field, one variant, one definition and one directive, as
\* the tokens the lexer yields for it.
FieldText(n, type, bits) ==
    << Identifier(n), type >>
    \o (IF bits = None THEN << >> ELSE << Keyword("Colon"), LiteralInt(bits[1]) >>)
    \o << Keyword("Comma") >>

VariantText(n, value) ==
    << Identifier(n) >>
    \o (IF value = None THEN << >> ELSE << Keyword("Assign"), LiteralInt(value[1]) >>)
    \o << Keyword("Comma") >>

RecordText(kw, n, fields) ==
    << Keyword(kw), Identifier(n), Keyword("OpenBrace") >> \o Flatten(fields)
    \o << Keyword("CloseBrace") >>

EnumText(n, p, variants) ==
    << Keyword("Enum"), Identifier(n), Keyword("Colon"), Primitive(p), Keyword("OpenBrace") >>
    \o Flatten(variants) \o << Keyword("CloseBrace") >>

EndianText(w) == << Keyword("Endianness"), Keyword("Assign"), Identifier(w) >>

Names == { "A", "B", "C" }

KeywordOf(n) == IF n = "B" THEN "Message" ELSE "Struct"

\* struct C { f u8 : 4, g u8 : 8, h u16, } and the struct of the parser's own
\* test, struct A { field1 u8, field2 u32, }
LeafItems ==
    { RecordText("Struct", "C", << FieldText("f", Primitive("u8"), Some(4)),
                                   FieldText("g", Primitive("u8"), Some(8)),
                                   FieldText("h", Primitive("u16"), None) >>),
      RecordText("Struct", "A", << FieldText("field1", Primitive("u8"), None),
                                   FieldText("field2", Primitive("u32"), None) >>) }

\* struct X { f Y, g u8, }, a message for B, with a self reference and the
\* references that close cycles of two and of three definitions
RefItems ==
    { RecordText(KeywordOf(r[1]), r[1], << FieldText("f", Identifier(r[2]), None),
                                           FieldText("g", Primitive("u8"), None) >>) :
        r \in { << "A", "B" >>, << "B", "A" >>, << "B", "B" >>, << "B", "C" >>,
                << "C", "A" >> } }

\* Two references, references to the undefined name U before and after a self
\* reference, an enum, bit-field suffixes beyond the width and on a custom type.
OtherItems ==
    { RecordText("Message", "A", << FieldText("f", Identifier("B"), None),
                                    FieldText("g", Identifier("C"), None) >>),
      RecordText("Message", "B", << FieldText("f", Identifier("U"), None) >>),
      RecordText("Struct", "C", << FieldText("f", Identifier("C"), None),
                                   FieldText("g", Identifier("U"), None) >>),
      RecordText("Struct", "C", << FieldText("f", Identifier("U"), None),
                                   FieldText("g", Identifier("C"), None) >>),
      EnumText("C", "u16", << VariantText("V", Some(1)), VariantText("W", None) >>),
      RecordText("Struct", "A", << FieldText("f", Primitive("u8"), Some(9)) >>),
      RecordText("Struct", "A", << FieldText("f", Identifier("B"), Some(4)) >>) }

EndianItems == { EndianText("big"), EndianText("little") }

Items == LeafItems \cup RefItems \cup OtherItems \cup EndianItems

Sources == SeqUpTo(Items, MaxItems)

\* ------------------------------------------------------------------ state
VARIABLES
    source,          \* the source text, item by item
    tokens,          \* the lexer's tokens for it
    pc,              \* "new", "parse", "ok" (parse_module returned Ok), "err"
    pos,             \* the index of current_token in tokens
    module,          \* Parser::module, then the module parse_module returns
    endianness_set,  \* the local of parse_module
    error,           \* the ParseError returned
    packed,          \* the result of resolver::resolve_module on the module
    lexer,           \* the Lexer, when the source is given as characters
    emitted          \* what the calls of Lexer::next returned, in order

vars == << source, tokens, pc, pos, module, endianness_set, error, packed, lexer, emitted >>

\* The parser's functions on a token sequence leave the lexer alone.
lexing == << lexer, emitted >>

NoLexer == [source |-> << >>]

current_token == TokenAt(tokens, pos)

NoError == [msg |-> "", at |-> 0]

NotPacked == [state |-> "none"]

\* The errors of resolve_module.
ResolutionErrors == { "circular dependency detected", "not defined" }

Init ==
    /\ source \in Sources
    /\ tokens = Flatten(source)
    /\ pc = "new"
    /\ pos = 0
    /\ module = OnyxModuleDefault
    /\ endianness_set = FALSE
    /\ error = NoError
    /\ packed = NotPacked
    /\ lexer = NoLexer
    /\ emitted = << >>

\* A function of the parser returns r: the parser goes on from an Ok, the
\* caller gets an Err, current_token being the token the error is reported at.
Continue(r) ==
    IF r.ok
    THEN /\ pc' = "parse"
         /\ pos' = r.pos
         /\ module' = r.val
         /\ UNCHANGED error
    ELSE /\ pc' = "err"
         /\ error' = r.err
         /\ pos' = IF r.err.at > 0 THEN r.err.at ELSE pos
         /\ UNCHANGED module

\* Parser::new
ParserNew ==
    /\ pc = "new"
    /\ \E r \in { parser_new(tokens) } : Continue(r)
    /\ UNCHANGED << source, tokens, endianness_set, packed, lexing >>

\* An iteration of parse_module's loop, r being its result.
Iterate(r) ==
    /\ Continue(r)
    /\ endianness_set' = IF r.ok THEN r.endianness_set ELSE endianness_set

\* An iteration of parse_module's loop that starts at a definition.
ParseDefinition ==
    /\ pc = "parse"
    /\ current_token.kind \notin { "Eof", "Endianness" }
    /\ \E r \in { loop_iteration(tokens, pos, module, endianness_set) } : Iterate(r)
    /\ UNCHANGED << source, tokens, packed, lexing >>

\* An iteration that starts at the first endianness directive: the directive,
\* then a definition.
ParseEndianness ==
    /\ pc = "parse"
    /\ current_token.kind = "Endianness"
    /\ ~endianness_set
    /\ \E r \in { loop_iteration(tokens, pos, module, endianness_set) } : Iterate(r)
    /\ UNCHANGED << source, tokens, packed, lexing >>

\* An iteration that starts at a further endianness directive.
SecondEndianness ==
    /\ pc = "parse"
    /\ current_token.kind = "Endianness"
    /\ endianness_set
    /\ \E r \in { loop_iteration(tokens, pos, module, endianness_set) } : Iterate(r)
    /\ UNCHANGED << source, tokens, packed, lexing >>

\* The return of parse_module, r being the result of resolve_module.
Return(r) ==
    IF r.ok
    THEN /\ pc' = "ok"
         /\ module' = r.val
         /\ UNCHANGED error
    ELSE /\ pc' = "err"
         /\ error' = r.err
         /\ UNCHANGED module

\* The end of parse_module's loop: resolve_module, the definitions being
\* iterated in any order (a HashMap).
ResolveModule ==
    /\ pc = "parse"
    /\ current_token.kind = "Eof"
    /\ \E iter \in Orders(DOMAIN module.definitions) : Return(resolve_module(module, iter))
    /\ UNCHANGED << source, tokens, pos, endianness_set, packed, lexing >>

PackedResult(r) ==
    IF r.ok THEN [state |-> "ok", packed_sizes |-> r.val] ELSE [state |-> "err", error |-> r.err]

\* The module was parsed to its end: parse_module returned it, or its
\* resolve_module rejected it.
Parsed == pc = "ok" \/ (pc = "err" /\ error.msg \in ResolutionErrors)

\* resolver::resolve_module, a public function of any OnyxModule, on the
\* parsed module, the definitions being iterated in any order.
ResolverResolveModule ==
    /\ Parsed
    /\ packed = NotPacked
    /\ \E iter \in Orders(DOMAIN module.definitions) :
          packed' = PackedResult(resolver_resolve_module(module, iter))
    /\ UNCHANGED << source, tokens, pc, pos, module, endianness_set, error, lexing >>

Next ==
    \/ ParserNew
    \/ ParseDefinition
    \/ ParseEndianness
    \/ SecondEndianness
    \/ ResolveModule
    \/ ResolverResolveModule

Spec == Init /\ [][Next]_vars

\* parse_module runs to its return: a step that can be taken is taken.
LiveSpec == Init /\ [][Next]_vars /\ WF_vars(Next)

\* ------------------------------------------------------------------ one definition
\* The largest number of fields or variants in the body of a definition.
MaxEntries == 3

\* A field as written: its name, type and bit-field size, with the comma
\* after it or without.
FieldEntries ==
    { [name |-> "f", type |-> Primitive("u8"), bits |-> None, comma |-> c] : c \in BOOLEAN }
    \cup { [name |-> "g", type |-> Primitive("u16"), bits |-> Some(4), comma |-> c] : c \in BOOLEAN }
    \cup { [name |-> "h", type |-> Identifier("B"), bits |-> None, comma |-> c] : c \in BOOLEAN }

\* A variant as written: its name and value, with the comma or without.
VariantEntries ==
    [name : { "V", "W" }, value : { None, Some(1), Some(7) }, comma : BOOLEAN]

FieldEntryText(e) ==
    IF e.comma THEN FieldText(e.name, e.type, e.bits)
    ELSE SubSeq(FieldText(e.name, e.type, e.bits), 1, Len(FieldText(e.name, e.type, e.bits)) - 1)

VariantEntryText(e) ==
    IF e.comma THEN VariantText(e.name, e.value)
    ELSE SubSeq(VariantText(e.name, e.value), 1, Len(VariantText(e.name, e.value)) - 1)

\* struct A { entries } and enum C : u8 { entries }
StructOf(es) == RecordText("Struct", "A", [i \in 1..Len(es) |-> FieldEntryText(es[i])])

EnumOf(es) == EnumText("C", "u8", [i \in 1..Len(es) |-> VariantEntryText(es[i])])

\* The definitions written: the keyword and the entries of the body.
DefinitionsWritten ==
    { [keyword |-> "Struct", entries |-> es] : es \in SeqUpTo(FieldEntries, MaxEntries) }
    \cup { [keyword |-> "Enum", entries |-> es] : es \in SeqUpTo(VariantEntries, MaxEntries) }

\* The parser on a source of one definition; source is the definition as
\* written, tokens its text.
DefinitionInit ==
    /\ source \in DefinitionsWritten
    /\ tokens = (IF source.keyword = "Enum" THEN EnumOf(source.entries)
                 ELSE StructOf(source.entries))
    /\ pc = "new"
    /\ pos = 0
    /\ module = OnyxModuleDefault
    /\ endianness_set = FALSE
    /\ error = NoError
    /\ packed = NotPacked
    /\ lexer = NoLexer
    /\ emitted = << >>

DefinitionNext ==
    \/ ParserNew
    \/ ParseDefinition
    \/ ResolveModule

DefinitionSpec == DefinitionInit /\ [][DefinitionNext]_vars

\* ------------------------------------------------------------------ typed definitions
\* A struct or a message of at most MaxFields fields, or an enum, over every
\* primitive type.
MaxFields == 2

\* A field as written: its type, and whether a colon without an integer
\* stands after it.
TypedEntries == [type : PrimitiveType, colon : BOOLEAN]

TypedEntryText(n, e) ==
    IF e.colon
    THEN << Identifier(n), Primitive(e.type), Keyword("Colon"), Keyword("Comma") >>
    ELSE FieldText(n, Primitive(e.type), None)

FieldNames == << "f1", "f2", "f3", "f4" >>

\* keyword A { f1 type, ... } and enum C : type { V = 1, }
TypedText(d) ==
    IF d.keyword = "Enum"
    THEN EnumText("C", d.entries[1].type, << VariantText("V", Some(1)) >>)
    ELSE RecordText(d.keyword, "A",
                    [i \in 1..Len(d.entries) |-> TypedEntryText(FieldNames[i], d.entries[i])])

TypedDefinitions ==
    { [keyword |-> k, entries |-> es] :
        k \in { "Struct", "Message" }, es \in SeqUpTo(TypedEntries, MaxFields) }
    \cup { [keyword |-> "Enum", entries |-> << [type |-> p, colon |-> FALSE] >>] :
             p \in PrimitiveType }

TypedInit ==
    /\ source \in TypedDefinitions
    /\ tokens = TypedText(source)
    /\ pc = "new"
    /\ pos = 0
    /\ module = OnyxModuleDefault
    /\ endianness_set = FALSE
    /\ error = NoError
    /\ packed = NotPacked
    /\ lexer = NoLexer
    /\ emitted = << >>

TypedNext ==
    \/ ParserNew
    \/ ParseDefinition
    \/ ResolveModule
    \/ ResolverResolveModule

TypedSpec == TypedInit /\ [][TypedNext]_vars

\* ------------------------------------------------------------------ lexer.rs
\* A source text is the sequence of its characters, each a string of one
\* character; the Rust str holds their UTF-8 encoding.
AsciiDigit == { "0", "1", "2", "3", "4", "5", "6", "7", "8", "9" }

AsciiAlphabetic ==
    { "a", "b", "c", "d", "e", "f", "g", "h", "i", "j", "k", "l", "m",
      "n", "o", "p", "q", "r", "s", "t", "u", "v", "w", "x", "y", "z",
      "A", "B", "C", "D", "E", "F", "G", "H", "I", "J", "K", "L", "M",
      "N", "O", "P", "Q", "R", "S", "T", "U", "V", "W", "X", "Y", "Z" }

is_ascii_digit(c) == c \in AsciiDigit

is_ascii_alphabetic(c) == c \in AsciiAlphabetic

is_ascii_alphanumeric(c) == c \in AsciiAlphabetic \cup AsciiDigit

is_ascii_whitespace(c) == c \in { " ", "\t", "\n", "\f", "\r" }

\* The number of bytes of the character c in UTF-8.
len_utf8(c) ==
    CASE c \in { "é", "ß" } -> 2
      [] c \in { "€" } -> 3
      [] OTHER -> 1

\* The byte index at which the character of index i (from 0) starts.
RECURSIVE byte_index(_, _)
byte_index(src, i) == IF i = 0 THEN 0 ELSE byte_index(src, i - 1) + len_utf8(src[i])

\* str::len, in bytes
source_len(src) == byte_index(src, Len(src))

is_char_boundary(src, b) == \E i \in 0..Len(src) : byte_index(src, i) = b

char_index(src, b) == CHOOSE i \in 0..Len(src) : byte_index(src, i) = b

Panic == [panic |-> TRUE]

\* &source[start..end], start and end being byte indexes: the characters
\* between them, a panic when an index is not on a character boundary.
str_slice(src, start, end) ==
    IF start <= end /\ is_char_boundary(src, start) /\ is_char_boundary(src, end)
    THEN [panic |-> FALSE, chars |-> SubSeq(src, char_index(src, start) + 1, char_index(src, end))]
    ELSE Panic

\* The string of the characters cs.
RECURSIVE to_string(_)
to_string(cs) == IF cs = << >> THEN "" ELSE Head(cs) \o to_string(Tail(cs))

\* TokenKind: a keyword or a symbol has no text, an Identifier has its name, a
\* Primitive its type, a LiteralInt its value in decimal, an Error its message.
TokenKind(k, s) == [kind |-> k, s |-> s]

Position(line, start, end) == [line |-> line, span |-> [start |-> start, end |-> end]]

Lexer_new(src) ==
    [source |-> src, start_line_indices |-> << 0 >>, absolute_pos |-> 0,
     current_line |-> 0, current_col |-> 0]

\* chars.peek(): absolute_pos counts the characters taken from chars.
peek(lx) ==
    IF lx.absolute_pos < Len(lx.source) THEN Some(lx.source[lx.absolute_pos + 1]) ELSE None

advance(lx) ==
    [lx EXCEPT !.absolute_pos = @ + 1, !.current_col = @ + 1]

advance_new_line(lx) ==
    [lx EXCEPT !.current_col = 0, !.absolute_pos = @ + 1, !.current_line = @ + 1,
               !.start_line_indices = Append(@, lx.absolute_pos + 1)]

RECURSIVE skip_whitespace(_)
skip_whitespace(lx) ==
    IF peek(lx) = None THEN lx
    ELSE IF peek(lx)[1] = "\n" THEN skip_whitespace(advance_new_line(lx))
    ELSE IF is_ascii_whitespace(peek(lx)[1]) THEN skip_whitespace(advance(lx))
    ELSE lx

\* The loops of take_identifier and of take_number: the characters of the
\* class are consumed.
RECURSIVE advance_while(_, _)
advance_while(lx, class) ==
    IF peek(lx) # None /\ peek(lx)[1] \in class
    THEN advance_while(advance(lx), class)
    ELSE lx

KeywordTable ==
    [import |-> TokenKind("Import", ""), endian |-> TokenKind("Endianness", ""),
     message |-> TokenKind("Message", ""), struct |-> TokenKind("Struct", ""),
     enum |-> TokenKind("Enum", ""), bool |-> TokenKind("Primitive", "bool"),
     u8 |-> TokenKind("Primitive", "u8"), u16 |-> TokenKind("Primitive", "u16"),
     u32 |-> TokenKind("Primitive", "u32"), u64 |-> TokenKind("Primitive", "u64"),
     i8 |-> TokenKind("Primitive", "i8"), i16 |-> TokenKind("Primitive", "i16"),
     i32 |-> TokenKind("Primitive", "i32"), i64 |-> TokenKind("Primitive", "i64"),
     f32 |-> TokenKind("Primitive", "f32"), f64 |-> TokenKind("Primitive", "f64")]

\* The match of take_identifier on the text of the run.
identifier_kind(ident_str) ==
    IF ident_str \in DOMAIN KeywordTable
    THEN KeywordTable[ident_str]
    ELSE TokenKind("Identifier", ident_str)

\* The loop of take_identifier or take_number from lx, then the slice of the
\* source between the two values of absolute_pos.
take_run(lx, class) ==
    LET after == advance_while(lx, class)
        slice == str_slice(lx.source, lx.absolute_pos, after.absolute_pos)
    IN  IF slice.panic
        THEN Panic
        ELSE [panic |-> FALSE, lexer |-> after, chars |-> slice.chars]

take_identifier(lx) ==
    LET run == take_run(lx, AsciiAlphabetic \cup AsciiDigit \cup { "_" })
    IN  IF run.panic
        THEN Panic
        ELSE [panic |-> FALSE, lexer |-> run.lexer,
              kind |-> identifier_kind(to_string(run.chars))]

U64Max == << "1", "8", "4", "4", "6", "7", "4", "4", "0", "7", "3", "7", "0", "9", "5", "5", "1", "6", "1", "5" >>

DigitValue(c) == CHOOSE d \in 0..9 : << "0", "1", "2", "3", "4", "5", "6", "7", "8", "9" >>[d + 1] = c

RECURSIVE StripZeros(_)
StripZeros(ds) == IF ds # << >> /\ Head(ds) = "0" THEN StripZeros(Tail(ds)) ELSE ds

\* a <= b for two digit sequences of one length
RECURSIVE DigitsLeq(_, _)
DigitsLeq(a, b) ==
    IF a = << >> THEN TRUE
    ELSE IF Head(a) # Head(b) THEN DigitValue(Head(a)) < DigitValue(Head(b))
    ELSE DigitsLeq(Tail(a), Tail(b))

FitsU64(ds) ==
    \/ Len(StripZeros(ds)) < Len(U64Max)
    \/ Len(StripZeros(ds)) = Len(U64Max) /\ DigitsLeq(StripZeros(ds), U64Max)

\* The digits that follow the sign str::parse::<u64> accepts.
Unsigned(cs) == IF cs # << >> /\ Head(cs) = "+" THEN Tail(cs) ELSE cs

\* str::parse::<u64>: the value in decimal, or None for an Err.
parse_u64(cs) ==
    IF /\ Unsigned(cs) # << >>
       /\ \A i \in 1..Len(Unsigned(cs)) : is_ascii_digit(Unsigned(cs)[i])
       /\ FitsU64(Unsigned(cs))
    THEN Some(IF StripZeros(Unsigned(cs)) = << >> THEN "0" ELSE to_string(StripZeros(Unsigned(cs))))
    ELSE None

\* The match of take_number on the text of the run.
number_kind(cs) ==
    LET parsed == parse_u64(cs)
    IN  IF parsed # None
        THEN TokenKind("LiteralInt", parsed[1])
        ELSE TokenKind("Error", "Invalid or oversized integer literal: " \o to_string(cs))

take_number(lx) ==
    LET run == take_run(lx, AsciiDigit)
    IN  IF run.panic
        THEN Panic
        ELSE [panic |-> FALSE, lexer |-> run.lexer, kind |-> number_kind(run.chars)]

Symbols ==
    [c \in { "{", "}", ",", ":", ";", "=" } |->
        CASE c = "{" -> "OpenBrace"
          [] c = "}" -> "CloseBrace"
          [] c = "," -> "Comma"
          [] c = ":" -> "Colon"
          [] c = ";" -> "Semicolon"
          [] c = "=" -> "Assign"]

\* The match of next on the character the lexer lx is at.
next_kind(lx) ==
    IF peek(lx)[1] \in DOMAIN Symbols
    THEN [panic |-> FALSE, lexer |-> advance(lx), kind |-> TokenKind(Symbols[peek(lx)[1]], "")]
    ELSE IF is_ascii_alphabetic(peek(lx)[1]) \/ peek(lx)[1] = "_" THEN take_identifier(lx)
    ELSE IF is_ascii_digit(peek(lx)[1]) THEN take_number(lx)
    ELSE [panic |-> FALSE, lexer |-> advance(lx),
          kind |-> TokenKind("Error", "Unrecognized character: '" \o peek(lx)[1] \o "'")]

ReturnSome(lx, token) == [lexer |-> lx, result |-> [is |-> "Some", token |-> token]]

ReturnNone(lx) == [lexer |-> lx, result |-> [is |-> "None"]]

Panicked(lx) == [lexer |-> lx, result |-> [is |-> "panic"]]

\* next, from the lexer lx that skip_whitespace left: start_pos and start_col
\* are its absolute_pos and current_col.
next_token(lx) ==
    IF peek(lx) = None
    THEN IF lx.absolute_pos < source_len(lx.source)
         THEN ReturnSome(lx, [kind |-> TokenKind("Eof", ""),
                              position |-> Position(lx.current_line, lx.absolute_pos, lx.absolute_pos)])
         ELSE ReturnNone(lx)
    ELSE LET taken == next_kind(lx)
         IN  IF taken.panic
             THEN Panicked(lx)
             ELSE ReturnSome(taken.lexer,
                             [kind |-> taken.kind,
                              position |-> Position(taken.lexer.current_line, lx.current_col,
                                                    taken.lexer.current_col)])

\* Iterator::next: the lexer after the call and what the call returns.
next(lx) == next_token(skip_whitespace(lx))

\* str::lines: the lines of cs, each without its "\n" and the "\r" before it;
\* an empty line at the end is left out.
RECURSIVE lines(_)
lines(cs) ==
    IF cs = << >> THEN << >>
    ELSE LET ends == { i \in 1..Len(cs) : cs[i] = "\n" }
             n == IF ends = {} THEN Len(cs) + 1 ELSE CHOOSE i \in ends : \A j \in ends : i <= j
             line == SubSeq(cs, 1, n - 1)
         IN  << IF line # << >> /\ line[Len(line)] = "\r" /\ ends # {}
                THEN SubSeq(line, 1, Len(line) - 1) ELSE line >>
             \o lines(SubSeq(cs, n + 1, Len(cs)))

\* String::repeat
repeat(c, n) == [i \in 1..n |-> c]

\* color::RED and color::END, each an escape sequence taken as one character.
RED == "RED"

END == "END"

\* The marker line of a token: "{space_str}{RED}{point_str}{END}".
marker_line(token) ==
    repeat(" ", token.position.span.start) \o << RED >>
        \o repeat("^", token.position.span.end - token.position.span.start) \o << END >>

\* The loop of display_token_in_context over the lines of right_slice, from
\* the index-th of them: the first gets the marker line after it, the next
\* four are appended, the others are left out.
RECURSIVE push_lines(_, _, _, _)
push_lines(result, slices, index, token) ==
    IF index >= Len(slices) \/ index > 4 THEN result
    ELSE IF index = 0
    THEN push_lines(result \o slices[1] \o << "\n" >> \o marker_line(token), slices, 1, token)
    ELSE push_lines(result \o << "\n" >> \o slices[index + 1], slices, index + 1, token)

\* Lexer::display_token_in_context: the characters of the String, or a panic
\* of one of the two slices of the source.
display_token_in_context(lx, token) ==
    LET line == token.position.line
        left_index == IF line > 3 THEN lx.start_line_indices[line - 3] ELSE 0
        right_index == lx.start_line_indices[line + 1] + token.position.span.end
        left == str_slice(lx.source, left_index, right_index)
        right_slice == str_slice(lx.source, right_index, source_len(lx.source))
    IN  IF line + 1 > Len(lx.start_line_indices) \/ left.panic \/ right_slice.panic
        THEN Panic
        ELSE [panic |-> FALSE,
              chars |-> push_lines(left.chars, lines(right_slice.chars), 0, token)]

\* ------------------------------------------------------------------ a source text
\* The text is made of at most MaxWords words; a call of next that finds the
\* text exhausted is made at most MaxCallsAtEnd times.
MaxWords == 3

MaxCallsAtEnd == 3

Words ==
    { << "u", "8" >>, << "x" >>, << "s", "t", "r", "u", "c", "t" >>, << " " >>, << "\n" >>,
      << "{" >>, << "@" >>, << "é" >>, << "7" >>, << "0" >>, U64Max,
      SubSeq(U64Max, 1, 19) \o << "6" >> }

TextsWritten == SeqUpTo(Words, MaxWords)

\* The source text
text == Flatten(source)

LexInit ==
    /\ source \in TextsWritten
    /\ lexer = Lexer_new(Flatten(source))
    /\ emitted = << >>
    /\ tokens = << >>
    /\ pc = "new"
    /\ pos = 0
    /\ module = OnyxModuleDefault
    /\ endianness_set = FALSE
    /\ error = NoError
    /\ packed = NotPacked

IsEof(r) == r.is = "Some" /\ r.token.kind.kind = "Eof"

\* The calls of next that found the text exhausted
CallsAtEnd == { i \in 1..Len(emitted) : emitted[i].is = "None" \/ IsEof(emitted[i]) }

HasPanicked == \E i \in 1..Len(emitted) : emitted[i].is = "panic"

\* What Parser::new gets of the lexer's first call of next
FirstToken(r) == IF r.is = "Some" THEN << r.token >> ELSE << >>

\* Parser::new on the source text: the lexer is made and its first token asked.
ParserNewOfText ==
    /\ pc = "new"
    /\ emitted = << >>
    /\ LET first == next(lexer)
       IN  /\ lexer' = first.lexer
           /\ emitted' = << first.result >>
           /\ IF first.result.is = "panic"
              THEN pc' = "panic" /\ UNCHANGED << pos, module, error >>
              ELSE Continue(parser_new(FirstToken(first.result)))
    /\ UNCHANGED << source, tokens, endianness_set, packed >>

\* A call of Lexer::next
LexerNext ==
    /\ ~HasPanicked
    /\ Cardinality(CallsAtEnd) < MaxCallsAtEnd
    /\ LET called == next(lexer)
       IN  /\ lexer' = called.lexer
           /\ emitted' = Append(emitted, called.result)
    /\ UNCHANGED << source, tokens, pc, pos, module, endianness_set, error, packed >>

\* The token the parser holds after Parser::new
first_token == emitted[1].token

\* The first iteration of parse_module's loop on a source text whose first
\* token starts no definition and no directive: parse_definition renders the
\* token in its context and returns the error.
ParseDefinitionOfText ==
    /\ pc = "parse"
    /\ Len(emitted) = 1
    /\ first_token.kind.kind \notin { "Eof", "Endianness", "Message", "Struct", "Enum" }
    /\ LET context == display_token_in_context(lexer, first_token)
       IN  IF context.panic
           THEN pc' = "panic" /\ UNCHANGED error
           ELSE /\ pc' = "err"
                /\ error' = [msg |-> "expected 'message', 'struct', or 'enum'",
                             found |-> first_token, at |-> 1, context |-> context.chars]
    /\ UNCHANGED << source, tokens, pos, module, endianness_set, packed, lexing >>

LexNext == ParserNewOfText \/ LexerNext \/ ParseDefinitionOfText

LexSpec == LexInit /\ [][LexNext]_vars

\* ------------------------------------------------------------------ the tokens of a text
\* The text is exhausted: a call of next has found no token, or has panicked.
Exhausted == CallsAtEnd # {} \/ HasPanicked

IsToken(r) == r.is = "Some" /\ ~IsEof(r)

\* The kinds, with their texts, of the tokens the calls of next have returned
KindsEmitted ==
    [i \in 1..Len(SelectSeq(emitted, IsToken)) |-> SelectSeq(emitted, IsToken)[i].token.kind]

\* The kinds of the tokens of a lexer, up to the first call of next that
\* returns no token; a panic ends them.
RECURSIVE kinds_from(_)
kinds_from(lx) ==
    LET called == next(lx)
    IN  IF IsToken(called.result) THEN << called.result.token.kind >> \o kinds_from(called.lexer)
        ELSE IF called.result.is = "panic" THEN << "panic" >>
        ELSE << >>

\* The 0-indexed line and column of the character of index i (from 1)
LineOf(i) == Cardinality({ j \in 1..(i - 1) : text[j] = "\n" })

LastNewLine(i) ==
    IF \E j \in 1..(i - 1) : text[j] = "\n"
    THEN CHOOSE j \in 1..(i - 1) : text[j] = "\n" /\ \A k \in (j + 1)..(i - 1) : text[k] # "\n"
    ELSE 0

ColOf(i) == i - 1 - LastNewLine(i)

\* The calls of next whose token starts at the character of index i
CallsAt(i) ==
    { k \in 1..Len(emitted) :
        /\ IsToken(emitted[k])
        /\ emitted[k].token.position.line = LineOf(i)
        /\ emitted[k].token.position.span.start = ColOf(i) }

IsRunChar(c) == is_ascii_alphanumeric(c) \/ c = "_"

\* The character of index i is inside a run [A-Za-z_][A-Za-z0-9_]*
RECURSIVE InRun(_)
InRun(i) ==
    /\ i >= 1
    /\ IsRunChar(text[i])
    /\ ~is_ascii_digit(text[i]) \/ InRun(i - 1)

\* The index after the last character of the maximal run of the class from i
RECURSIVE RunEnd(_, _)
RunEnd(i, class) ==
    IF i <= Len(text) /\ text[i] \in class THEN RunEnd(i + 1, class) ELSE i

IdentifierStarts == { i \in 1..Len(text) : InRun(i) /\ ~InRun(i - 1) }

DigitStarts ==
    { i \in 1..Len(text) :
        /\ is_ascii_digit(text[i])
        /\ ~InRun(i)
        /\ i = 1 \/ ~is_ascii_digit(text[i - 1]) }

Unrecognized ==
    { i \in 1..Len(text) :
        /\ ~is_ascii_whitespace(text[i])
        /\ ~IsRunChar(text[i])
        /\ text[i] \notin DOMAIN Symbols }

WhitespaceOnly == text # << >> /\ \A i \in 1..Len(text) : is_ascii_whitespace(text[i])

ParserMade == pc \in { "parse", "err", "panic" }

\* C14: Parser::new fails with 'Empty source file.' on an empty source, and a
\* non-empty source of whitespace only initializes a parser whose first token
\* is Eof, so that parse_module returns Ok with no definition.
C14_WhitespaceOnlyIsAModule ==
    ParserMade =>
        /\ text = << >> => pc = "err" /\ error.msg = "Empty source file."
        /\ WhitespaceOnly =>
              /\ pc = "parse"
              /\ module.definitions = EmptyMap
              /\ IsEof(emitted[1])

\* C15: when the text is exhausted the lexer returns an Eof token exactly once,
\* and every call of next after that Eof returns None: no None comes before an
\* Eof, and no token, no second Eof, comes after it.
C15_EofOnceThenNone ==
    \A i \in 1..Len(emitted) :
        /\ emitted[i].is = "None" => \E j \in 1..(i - 1) : IsEof(emitted[j])
        /\ IsEof(emitted[i]) => \A j \in (i + 1)..Len(emitted) : emitted[j].is = "None"

\* The text with a space for its character of index i
WithSpaceAt(i) == [text EXCEPT ![i] = " "]

\* The sequence s without its element of index k
Without(s, k) == SubSeq(s, 1, k - 1) \o SubSeq(s, k + 1, Len(s))

\* C16: an unrecognized character, multi-byte ones included, yields one Error
\* token that spans that character alone, the lexer does not halt, and the
\* other tokens of the text have the kinds and texts of the tokens of the text
\* in which the character is replaced by a space.
C16_UnrecognizedIsSkippedLikeSpace ==
    Exhausted =>
        \A i \in Unrecognized :
            /\ ~HasPanicked
            /\ \E k \in CallsAt(i) :
                  /\ emitted[k].token.kind = TokenKind("Error", "Unrecognized character: '" \o text[i] \o "'")
                  /\ emitted[k].token.position.span.end = ColOf(i) + 1
                  /\ Without(KindsEmitted, Cardinality({ j \in 1..k : IsToken(emitted[j]) }))
                        = kinds_from(Lexer_new(WithSpaceAt(i)))

\* The value of a run of digits, in decimal
ValueOf(ds) == IF StripZeros(ds) = << >> THEN "0" ELSE to_string(StripZeros(ds))

\* C17: a maximal run of digits is one token, LiteralInt of its value when the
\* value is at most 2^64 - 1 and else one Error token 'Invalid or oversized
\* integer literal'; the lexer does not panic and goes on after the run.
C17_DigitRunIsOneToken ==
    Exhausted =>
        /\ ~HasPanicked
        /\ \A i \in DigitStarts :
              \E k \in CallsAt(i) :
                 /\ emitted[k].token.position.span.end = ColOf(i) + (RunEnd(i, AsciiDigit) - i)
                 /\ emitted[k].token.kind =
                       IF FitsU64(SubSeq(text, i, RunEnd(i, AsciiDigit) - 1))
                       THEN TokenKind("LiteralInt", ValueOf(SubSeq(text, i, RunEnd(i, AsciiDigit) - 1)))
                       ELSE TokenKind("Error", "Invalid or oversized integer literal: "
                                               \o to_string(SubSeq(text, i, RunEnd(i, AsciiDigit) - 1)))

KeywordKinds ==
    [endian |-> "Endianness", import |-> "Import", message |-> "Message",
     struct |-> "Struct", enum |-> "Enum"]

\* The token of a run: a keyword, a primitive type, or an identifier
KindOfRun(run) ==
    IF run \in DOMAIN KeywordKinds THEN TokenKind(KeywordKinds[run], "")
    ELSE IF run \in PrimitiveType THEN TokenKind("Primitive", run)
    ELSE TokenKind("Identifier", run)

RunAt(i) == SubSeq(text, i, RunEnd(i, AsciiAlphabetic \cup AsciiDigit \cup { "_" }) - 1)

\* C18: a maximal run [A-Za-z_][A-Za-z0-9_]* is one token: the keyword or the
\* Primitive when the whole run is its name, the Identifier of the run
\* otherwise.
C18_IdentifierRunIsOneToken ==
    Exhausted =>
        /\ ~HasPanicked
        /\ \A i \in IdentifierStarts :
              \E k \in CallsAt(i) :
                 /\ emitted[k].token.position.span.end = ColOf(i) + Len(RunAt(i))
                 /\ emitted[k].token.kind = KindOfRun(to_string(RunAt(i)))


\* ------------------------------------------------------------------ properties
\* The last token of the j-th item of the source, and the first one.
RECURSIVE ItemEnd(_)
ItemEnd(j) == IF j = 0 THEN 0 ELSE ItemEnd(j - 1) + Len(source[j])

ItemStart(j) == ItemEnd(j - 1) + 1

\* The items that are definitions, and the name each defines.
DefinitionItems == { j \in 1..Len(source) : source[j][1].kind \in { "Message", "Struct", "Enum" } }

ItemName(j) == source[j][2].s

\* The parser is past token k: it consumed it without an error.
Past(k) == pc # "new" /\ pos > k

IndexOf(o, x) == CHOOSE i \in 1..Len(o) : o[i] = x

\* The custom types the fields of a definition name.
CustomRefs(def) ==
    { def.fields[i].type_info.name :
        i \in { i \in 1..Len(def.fields) : def.fields[i].type_info.tag = "Custom" } }

AllDefined(defs) == \A n \in DOMAIN defs : CustomRefs(defs[n]) \subseteq DOMAIN defs

\* The definitions reached from those of S through fields of custom types.
RECURSIVE Reach(_, _)
Reach(defs, S) ==
    IF S \cup UNION { CustomRefs(defs[n]) \cap DOMAIN defs : n \in S } = S THEN S
    ELSE Reach(defs, S \cup UNION { CustomRefs(defs[n]) \cap DOMAIN defs : n \in S })

\* A definition reaches itself, a field of its own type included.
HasCycle(defs) ==
    \E n \in DOMAIN defs : \E t \in CustomRefs(defs[n]) \cap DOMAIN defs : n \in Reach(defs, { t })

RECURSIVE SumOfWidths(_, _, _)
SumOfWidths(fields, m, i) ==
    IF i > Len(fields) THEN 0
    ELSE FieldGetBitWidth(fields[i], m)[1] + SumOfWidths(fields, m, i + 1)

Records(m) == { n \in DOMAIN m.definitions : m.definitions[n].kind \in { "Message", "Struct" } }

C2_CycleIffCircularError ==
    Parsed /\ AllDefined(module.definitions) =>
        /\ (pc = "err" /\ error.msg = "circular dependency detected")
              <=> HasCycle(module.definitions)
        /\ pc = "ok" <=> ~HasCycle(module.definitions)

\* A cycle through two or more definitions, and one of a definition on itself.
C2_Witness ==
    /\ pc = "err"
    /\ error.msg = "circular dependency detected"
    /\ AllDefined(module.definitions)
    /\ Len(error.cycle) >= 3
    /\ \E n \in DOMAIN module.definitions : n \in CustomRefs(module.definitions[n])

\* C3 as the specification states it: a module parsed to its end that names a
\* custom type with no definition is rejected with the 'not defined' error by
\* parse_module, and with 'is used but not defined' by the resolver.
C3_UndefinedAlwaysNotDefined ==
    ~AllDefined(module.definitions) =>
        /\ Parsed => pc = "err" /\ error.msg = "not defined"
        /\ packed # NotPacked => packed.state = "err" /\ packed.error.msg = "is used but not defined"

\* C3: a module parsed to its end that names a custom type with no definition
\* is never returned; the error is the 'not defined' one, naming an undefined
\* type, unless the module also has a reference cycle, and then it is either
\* that error or the circular dependency one. The same holds of the resolver
\* with its two errors.
C3_UndefinedIsRejected ==
    ~AllDefined(module.definitions) =>
        /\ Parsed =>
              /\ pc = "err"
              /\ ~HasCycle(module.definitions) => error.msg = "not defined"
              /\ error.msg = "not defined" => error.name \notin DOMAIN module.definitions
        /\ packed # NotPacked =>
              /\ packed.state = "err"
              /\ ~HasCycle(module.definitions) => packed.error.msg = "is used but not defined"
              /\ packed.error.msg = "is used but not defined"
                    => packed.error.name \notin DOMAIN module.definitions

\* An undefined type in a module without a cycle, rejected by both.
C3_Witness ==
    /\ pc = "err"
    /\ error.msg = "not defined"
    /\ error.name = "U"
    /\ ~HasCycle(module.definitions)
    /\ packed # NotPacked
    /\ packed.state = "err"
    /\ packed.error.msg = "is used but not defined"

C5_PackedSizeIsCeilOfBits ==
    pc = "ok" /\ packed # NotPacked =>
        /\ packed.state = "ok"
        /\ DOMAIN packed.packed_sizes = DOMAIN module.definitions
        /\ \A n \in DOMAIN module.definitions :
              packed.packed_sizes[n] = (DefinitionSize(module.definitions[n])[1] + 7) \div 8

\* The sources that differ from the source in the order of its definitions.
PermutedSources ==
    { [j \in 1..Len(source) |-> source[o[j]]] :
        o \in { o \in Orders(1..Len(source)) :
                  \A j \in 1..Len(source) : j \notin DefinitionItems => o[j] = j } }

\* The resolution r returned a module with the definitions of the module.
SameSizes(r) == r.ok /\ r.val.definitions = module.definitions

\* C6: the sizes of a returned module do not depend on the order in which the
\* definitions stand in the source, nor on the order in which the map is
\* iterated, and resolving the returned module again leaves them as they are:
\* every arrangement of the definitions parses to the one module, which
\* resolves to the returned definitions in every iteration order, and so does
\* the returned module.
C6_SizesOrderIndependentIdempotent ==
    pc = "ok" =>
        /\ \A src \in PermutedSources : parsed_module(Flatten(src)) = parsed_module(tokens)
        /\ \A iter \in Orders(DOMAIN module.definitions) :
              /\ SameSizes(resolve_module(parsed_module(tokens).val, iter))
              /\ SameSizes(resolve_module(module, iter))

\* Three definitions, the first one of the text naming a later one.
C6_Witness ==
    /\ pc = "ok"
    /\ Cardinality(DefinitionItems) = 3
    /\ CustomRefs(module.definitions[ItemName(1)]) # {}
    /\ \E n \in DOMAIN module.definitions : module.definitions[n].size = Some(36)

\* The first definition item of the source with the name n.
FirstItem(n) ==
    CHOOSE i \in DefinitionItems :
        ItemName(i) = n /\ \A k \in DefinitionItems : ItemName(k) = n => i <= k

\* C7: when the parser has parsed a definition whose name an earlier
\* definition has, of the same kind or not, parse_module has failed with the
\* 'already exists' error naming it, at the end of that definition, and the
\* map holds the first definition, unresolved; the module is never returned.
C7_DuplicateNameRejected ==
    \A j \in DefinitionItems :
        (FirstItem(ItemName(j)) < j /\ Past(ItemEnd(j))) =>
            /\ pc = "err"
            /\ error.msg = "already exists"
            /\ error.name = ItemName(j)
            /\ pos = ItemEnd(j) + 1
            /\ module.definitions[ItemName(j)]
                  = parse_definition(source[FirstItem(ItemName(j))], 1).val

\* A struct with the name of an enum before it.
C7_Witness ==
    /\ pc = "err"
    /\ error.msg = "already exists"
    /\ module.definitions[error.name].kind = "Enum"
    /\ \E j \in DefinitionItems :
          /\ ItemName(j) = error.name
          /\ pos = ItemEnd(j) + 1
          /\ source[j][1].kind = "Struct"

\* A field of a primitive type with a suffix ': N' has its type at token k.
PrimitiveSuffixAt(k) ==
    /\ k >= 2
    /\ k + 2 <= Len(tokens)
    /\ tokens[k - 1].kind = "Identifier"
    /\ tokens[k].kind = "Primitive"
    /\ tokens[k + 1].kind = "Colon"
    /\ tokens[k + 2].kind = "LiteralInt"

\* The item of the source that token k belongs to.
ItemOf(k) == CHOOSE j \in 1..Len(source) : ItemStart(j) <= k /\ k <= ItemEnd(j)

\* The field of the parsed module that stands at token k of the source.
FieldAt(k) ==
    LET fields == module.definitions[ItemName(ItemOf(k))].fields
    IN  fields[CHOOSE i \in 1..Len(fields) : fields[i].name = tokens[k - 1].s]

\* C8: a suffix ': N' on a field of a primitive type is accepted exactly when
\* N is at most the width of the type, the field then having bit_field_size
\* Some(N) and the effective width N; a larger N is rejected at the literal
\* with the 'exceeds type' error that names N and the width. u8 : 8 is
\* accepted, u8 : 9 is rejected.
C8_BitFieldWithinWidth ==
    \A k \in 2..Len(tokens) : PrimitiveSuffixAt(k) =>
        /\ Past(k + 2) => tokens[k + 2].v <= get_bit_width(tokens[k].s)
        /\ (pc \in { "parse", "ok" } /\ Past(k + 2)) =>
              /\ FieldAt(k).bit_field_size = Some(tokens[k + 2].v)
              /\ FieldGetBitWidth(FieldAt(k), module) = Some(tokens[k + 2].v)
        /\ (pc = "err" /\ pos = k + 2 /\ error.at = k + 2) =>
              /\ tokens[k + 2].v > get_bit_width(tokens[k].s)
              /\ error.msg = "exceeds type"
              /\ error.size = tokens[k + 2].v
              /\ error.width = get_bit_width(tokens[k].s)
        /\ (tokens[k].s = "u8" /\ tokens[k + 2].v = 9) => ~Past(k + 2)

\* u8 : 8 was accepted, and u8 : 9 after it is rejected.
C8_Witness ==
    /\ pc = "err"
    /\ error.msg = "exceeds type"
    /\ error.size = 9
    /\ error.width = 8
    /\ \E k \in 2..Len(tokens) :
          /\ PrimitiveSuffixAt(k)
          /\ Past(k + 2)
          /\ tokens[k].s = "u8"
          /\ tokens[k + 2].v = 8
          /\ FieldAt(k).bit_field_size = Some(8)

\* A field of a custom type followed by a colon has its type at token k.
CustomSuffixAt(k) ==
    /\ k >= 2
    /\ k + 1 <= Len(tokens)
    /\ tokens[k - 1].kind = "Identifier"
    /\ tokens[k].kind = "Identifier"
    /\ tokens[k + 1].kind = "Colon"

\* C9: a bit-field suffix on a field of a custom type makes parsing fail, at
\* the token after the colon, with 'expected integer literal for bit-field
\* size'; in the module being parsed and in a returned one, bit_field_size is
\* Some only on fields of primitive types.
C9_BitFieldOnlyOnPrimitives ==
    /\ \A k \in 2..Len(tokens) : (CustomSuffixAt(k) /\ Past(k + 1)) =>
          /\ pc = "err"
          /\ pos = k + 2
          /\ error.msg = "expected integer literal for bit-field size"
    /\ \A n \in DOMAIN module.definitions : \A i \in 1..Len(module.definitions[n].fields) :
          module.definitions[n].fields[i].bit_field_size # None
              => module.definitions[n].fields[i].type_info.tag = "Primitive"

\* The suffix on a custom type was met after a definition with a bit-field.
C9_Witness ==
    /\ pc = "err"
    /\ error.msg = "expected integer literal for bit-field size"
    /\ \E k \in 2..Len(tokens) : CustomSuffixAt(k) /\ pos = k + 2
    /\ \E n \in DOMAIN module.definitions :
          /\ module.definitions[n].fields # << >>
          /\ module.definitions[n].fields[1].bit_field_size = Some(4)

\* C10: the endianness of a returned module is Little when the source has no
\* directive, Big when it has 'endian = big' and Little when it has
\* 'endian = little'.
C10_EndiannessFromDirective ==
    pc = "ok" =>
        /\ Range(source) \cap EndianItems = {} => module.endianness = "Little"
        /\ EndianText("big") \in Range(source) => module.endianness = "Big"
        /\ EndianText("little") \in Range(source) => module.endianness = "Little"

\* A module returned for a source with 'endian = big'.
C10_Witness ==
    /\ pc = "ok"
    /\ EndianText("big") \in Range(source)
    /\ module.endianness = "Big"
    /\ module.definitions # EmptyMap

\* The items of the source that are endianness directives.
DirectiveItems == { j \in 1..Len(source) : source[j] \in EndianItems }

\* The endianness the directive of item j names.
DirectiveValue(j) == IF source[j] = EndianText("big") THEN "Big" ELSE "Little"

\* The first endianness directive of the source.
FirstDirective == CHOOSE i \in DirectiveItems : \A k \in DirectiveItems : i <= k

\* C11: a source with two endianness directives, adjacent or separated by
\* definitions, is rejected: the parser never gets past the first token of a
\* directive that follows the first one, where it fails, whatever it parsed
\* between them, unless the definition before it failed as a duplicate; no
\* module is returned, and the module never takes the value of a directive
\* after the first.
C11_SecondDirectiveRejected ==
    \A j \in DirectiveItems : j # FirstDirective =>
        /\ pc # "ok"
        /\ ~Past(ItemStart(j))
        /\ (pc = "err" /\ pos = ItemStart(j) /\ error.msg # "already exists") =>
              error.msg = (IF j = FirstDirective + 1
                           THEN "expected 'message', 'struct', or 'enum'"
                           ELSE "expected one endianness definition, found a second")
        /\ module.endianness \in { "Little", DirectiveValue(FirstDirective) }

\* 'endian = big', a definition, then 'endian = little': rejected at the
\* second directive, the module being big-endian.
C11_Witness ==
    /\ pc = "err"
    /\ error.msg = "expected one endianness definition, found a second"
    /\ DirectiveItems = { 1, 3 }
    /\ DirectiveValue(1) = "Big"
    /\ DirectiveValue(3) = "Little"
    /\ pos = ItemStart(3)
    /\ module.endianness = "Big"

\* C12: a source whose endianness directive stands after one or more
\* definitions is rejected, even when it is the only directive.
C12_DirectiveOnlyFirst ==
    \A j \in DirectiveItems :
        (\E i \in DefinitionItems : i < j) => pc # "ok"

\* C13: for a source that is one endianness directive and no definition,
\* parse_module returns a module with that endianness and no definitions.
C13_DirectiveAloneIsAModule ==
    (Len(source) = 1 /\ DirectiveItems = { 1 } /\ pc \in { "ok", "err" }) =>
        /\ pc = "ok"
        /\ module.endianness = DirectiveValue(1)
        /\ module.definitions = EmptyMap

IsEnumSource == source.keyword = "Enum"

\* The definition of the source was parsed and inserted.
DefinitionParsed == pc \in { "parse", "ok" } /\ pos > 1

\* C19: the variants of a parsed enum are those written, in their order:
\* one written with '= N' carries Some(N), one written without a value
\* carries None, whatever the value of the variant before it.
C19_VariantValuesAsWritten ==
    (IsEnumSource /\ DefinitionParsed) =>
        module.definitions["C"].variants
            = [i \in 1..Len(source.entries) |->
                  EnumVariant(source.entries[i].name, source.entries[i].value)]

\* enum C : u8 { V = 1, W, V = 7, }: the variant after V = 1 has no value.
C19_Witness ==
    /\ IsEnumSource
    /\ pc = "ok"
    /\ module.definitions["C"].variants
          = << EnumVariant("V", Some(1)), EnumVariant("W", None), EnumVariant("V", Some(7)) >>
    /\ DefinitionSize(module.definitions["C"]) = Some(8)

\* The entries written without a comma, and the first of them.
NoComma == { i \in 1..Len(source.entries) : ~source.entries[i].comma }

FirstNoComma == CHOOSE i \in NoComma : \A k \in NoComma : i <= k

\* The tokens of the first i entries of the definition written.
RECURSIVE EntryTokens(_)
EntryTokens(i) ==
    IF i = 0 THEN 0
    ELSE EntryTokens(i - 1)
         + Len(IF IsEnumSource THEN VariantEntryText(source.entries[i])
               ELSE FieldEntryText(source.entries[i]))

\* The tokens before the body: 'struct A {', 'enum C : u8 {'.
HeaderTokens == IF IsEnumSource THEN 5 ELSE 3

\* C20: every field and every variant must end with a comma, the last one
\* included: a definition with an entry that has none, be it the last one
\* before the brace, is rejected, the parser failing at the token after the
\* first such entry, where it expects the comma.
C20_CommaRequired ==
    NoComma # {} =>
        /\ ~DefinitionParsed
        /\ pc = "err" =>
              /\ error.msg = "expected"
              /\ error.expected = "Comma"
              /\ pos = HeaderTokens + EntryTokens(FirstNoComma) + 1

\* struct A { f u8, g u16 : 4 }: the last field is followed by the brace.
C20_Witness ==
    /\ ~IsEnumSource
    /\ Len(source.entries) = 2
    /\ NoComma = { 2 }
    /\ pc = "err"
    /\ error.expected = "Comma"
    /\ error.found.kind = "CloseBrace"

\* A path of references of the module without repetition up to its last name,
\* which is a name of the path met again
IsCycleChain(cycle) ==
    /\ Len(cycle) >= 2
    /\ \A i \in 1..(Len(cycle) - 1) :
          /\ cycle[i] \in DOMAIN module.definitions
          /\ cycle[i + 1] \in CustomRefs(module.definitions[cycle[i]])
          /\ \A j \in 1..(Len(cycle) - 1) : cycle[i] = cycle[j] => i = j
    /\ \E i \in 1..(Len(cycle) - 1) : cycle[i] = cycle[Len(cycle)]

\* The module is two types A and B that name each other
MutualAB ==
    /\ DOMAIN module.definitions = { "A", "B" }
    /\ CustomRefs(module.definitions["A"]) = { "B" }
    /\ CustomRefs(module.definitions["B"]) = { "A" }

\* C22: the error of a cycle lists the names of the in-progress stack, oldest
\* first, then the name found again, joined by ' -> ': the chain is a path of
\* references of the module without repetition up to its last name, which is
\* a name of the chain met again; for two types that name each other the
\* message names both. The resolver's error has the same chain.
C22_CycleChainIsStackThenName ==
    /\ (pc = "err" /\ error.msg = "circular dependency detected") =>
          /\ IsCycleChain(error.cycle)
          /\ MutualAB => circular_message(error.cycle) \in
                             { "circular dependency detected: 'A -> B -> A'.",
                               "circular dependency detected: 'B -> A -> B'." }
    /\ (packed.state = "err" /\ packed.error.msg = "Circular dependency detected") =>
          /\ IsCycleChain(packed.error.cycle)
          /\ MutualAB => join(packed.error.cycle, " -> ") \in { "A -> B -> A", "B -> A -> B" }

\* The stack holds a name that is not on the cycle: C names A, A and B name
\* each other, and resolution started at C.
C22_Witness ==
    /\ pc = "err"
    /\ error.msg = "circular dependency detected"
    /\ error.cycle = << "C", "A", "B", "A" >>
    /\ circular_message(error.cycle) = "circular dependency detected: 'C -> A -> B -> A'."

IsDefinitionItem(j) == j \in DefinitionItems

\* The names of the definitions in the order in which the source has them
SourceOrder ==
    [i \in 1..Cardinality(DefinitionItems) |->
        ItemName(SelectSeq([j \in 1..Len(source) |-> j], IsDefinitionItem)[i])]

\* C23: the order of a module parse_module returns is the order in which the
\* definitions appeared in the source.
C23_OrderIsSourceOrder ==
    pc = "ok" => module.order = SourceOrder

IntegerTypes == { "u8", "u16", "u32", "u64", "i8", "i16", "i32", "i64" }

\* C24: an enum declared over bool, f32 or f64 is rejected at the type with
\* 'expected a numeric primitive type', and every enum of a module being
\* parsed or returned has an integer underlying type.
C24_EnumOverIntegerOnly ==
    /\ (source.keyword = "Enum" /\ source.entries[1].type \notin IntegerTypes /\ pos > 1) =>
          /\ pc = "err"
          /\ error.msg = "expected a numeric primitive type"
    /\ \A n \in DOMAIN module.definitions :
          module.definitions[n].kind = "Enum"
              => module.definitions[n].underlying_type \in IntegerTypes

\* The table of the widths of the primitive types
BitWidthTable ==
    [p \in PrimitiveType |->
        IF p \in { "bool", "u8", "i8" } THEN 8
        ELSE IF p \in { "u16", "i16" } THEN 16
        ELSE IF p \in { "u32", "i32", "f32" } THEN 32
        ELSE 64]

\* C25: get_bit_width of each of the eleven primitive types is the width of
\* the table and get_byte_size is get_bit_width / 8: for every type written in
\* the source, and in the size of the fields and of the enum of the returned
\* module.
C25_WidthsPerTable ==
    \A i \in 1..Len(source.entries) :
        /\ get_bit_width(source.entries[i].type) = BitWidthTable[source.entries[i].type]
        /\ get_byte_size(source.entries[i].type) = get_bit_width(source.entries[i].type) \div 8
        /\ get_bit_width(source.entries[i].type) = 8 * get_byte_size(source.entries[i].type)
        /\ (pc = "ok" /\ source.keyword = "Enum") =>
              DefinitionSize(module.definitions["C"]) = Some(BitWidthTable[source.entries[i].type])
        /\ (pc = "ok" /\ source.keyword # "Enum") =>
              FieldGetBitWidth(module.definitions["A"].fields[i], module)
                  = Some(BitWidthTable[source.entries[i].type])

\* message A { f1 f64, f2 bool, }: 72 bits, 9 bytes
C25_Witness ==
    /\ pc = "ok"
    /\ source.keyword = "Message"
    /\ Len(source.entries) = 2
    /\ source.entries[1].type = "f64"
    /\ source.entries[2].type = "bool"
    /\ module.definitions["A"].size = Some(72)
    /\ packed = [state |-> "ok", packed_sizes |-> ("A" :> 9)]

\* C26: a field whose type is followed by a colon and no integer is rejected:
\* the parser never gets past that colon, and no module is returned.
C26_ColonNeedsInteger ==
    \A i \in 1..Len(source.entries) :
        source.entries[i].colon =>
            /\ pc # "ok"
            /\ ~(pc = "parse" /\ pos > 1)
            /\ pc = "err" => error.msg = "expected integer literal for bit-field size"

\* What parse_module returns when resolve_module returns r
Returned(r) == IF r.ok THEN pc = "ok" /\ module = r.val ELSE pc = "err" /\ error = r.err

\* C29: parse_module is a function of the source: whatever the order in
\* which the hash map of the definitions is iterated, it returns the module,
\* order included, or the error, the chain of a cycle included, that it has
\* returned.
C29_ParseModuleIsDeterministic ==
    (Parsed /\ parsed_module(tokens).ok) =>
        \A iter \in Orders(DOMAIN parsed_module(tokens).val.definitions) :
            Returned(resolve_module(parsed_module(tokens).val, iter))

\* C30: a module parse_module returns is resolved and closed: every struct
\* and message has a size, every custom type a field names is a key of the
\* definitions, every definition is stored under its name, and
\* Field::get_bit_width has a value for every field.
C30_ReturnedModuleIsClosed ==
    pc = "ok" =>
        \A n \in DOMAIN module.definitions :
            /\ module.definitions[n].name = n
            /\ module.definitions[n].kind \in { "Message", "Struct" }
                  => module.definitions[n].size # None
            /\ CustomRefs(module.definitions[n]) \subseteq DOMAIN module.definitions
            /\ \A i \in 1..Len(module.definitions[n].fields) :
                  FieldGetBitWidth(module.definitions[n].fields[i], module) # None

\* A returned module whose message A names the message B and the enum C.
C30_Witness ==
    /\ pc = "ok"
    /\ DOMAIN module.definitions = { "A", "B", "C" }
    /\ module.definitions["C"].kind = "Enum"
    /\ CustomRefs(module.definitions["A"]) = { "B", "C" }
    /\ module.definitions["A"].size = Some(40)

\* parse_module has returned.
Done == pc \in { "ok", "err" }

\* An iteration of the loop of parse_struct_body or of parse_enum that starts
\* at any token of the source and returns no error ends after that token.
BodyLoopsConsume ==
    \A p \in 1..Len(tokens) :
        /\ parse_field(tokens, p).ok => parse_field(tokens, p).pos > p
        /\ parse_variant(tokens, p).ok => parse_variant(tokens, p).pos > p

\* An iteration of the loop of parse_module after which the loop goes on has
\* consumed a token.
ModuleLoopConsumes == (pc = "parse" /\ pc' = "parse") => pos' > pos

\* The in-progress stack a cycle was found with holds no more names than the
\* module has definitions.
StackIsBounded ==
    (pc = "err" /\ error.msg = "circular dependency detected") =>
        Len(error.cycle) <= Cardinality(DOMAIN module.definitions) + 1

\* C28: parse_module terminates on every source: every iteration of the
\* module loop, of the struct-body loop and of the enum-variant loop consumes
\* a token or returns an error, the resolution of a cyclic graph ends with a
\* stack of distinct names, and parse_module returns.
C28_ParseModuleTerminates ==
    /\ [](BodyLoopsConsume /\ StackIsBounded)
    /\ [][ModuleLoopConsumes]_vars
    /\ <>Done

\* The resolution ended on a cycle of three definitions, after three
\* iterations of the module loop.
C28_Witness ==
    /\ pc = "err"
    /\ error.msg = "circular dependency detected"
    /\ Len(error.cycle) = 4
    /\ error.cycle[1] = error.cycle[4]
    /\ pos = Len(tokens) + 1

\* The parser reported an error at a token, with the token in its context.
ReportedInContext == pc = "err" /\ "context" \in DOMAIN error

\* C21: an error the parser reports at a token has a context that holds a
\* marker line of span.end - span.start carets indented by span.start
\* columns, wherever the token lies in the source, its end included.
C21_ContextHasMarkerLine ==
    ReportedInContext =>
        \E i \in 1..Len(lines(error.context)) :
            lines(error.context)[i] = marker_line(error.found)

\* C27: on every source text, one with multi-byte characters included,
\* Parser::new followed by parse_module returns and does not panic.
C27_ParseNeverPanics == pc # "panic"

====
